---- MODULE Spec2Model ----
(***************************************************************************)
(* Record-tree bookkeeping and report export of src/app.py.                *)
(*                                                                         *)
(* The Qt tree is modelled as a heap of QTreeWidgetItem objects: `items`   *)
(* is the sequence of all items ever constructed, an item's identity is    *)
(* its index, and each item holds its column-0 text, its Qt.UserRole data, *)
(* its parent and its ordered children.  Strings are TLA+ strings built    *)
(* with \o and ToString exactly as the f-strings of the source build them. *)
(* SANY's lexer rejects most Hangul code points inside a string, so every  *)
(* Korean literal of the source is written in Revised Romanization, one    *)
(* fixed spelling per literal: "jindan" is the source's diagnosis word,    *)
(* "jochi" its action word, "ripoteu" its report word.                     *)
(***************************************************************************)
EXTENDS Integers, Sequences, FiniteSets, TLC

VARIABLES
    items,              \* heap of QTreeWidgetItem objects, index = identity
    topLevel,           \* record_tree's top-level items, in order
    date_roots,         \* MainWindow.date_roots: date string -> item
    diag_seq_by_date,   \* MainWindow.diag_seq_by_date: date string -> int
    currentItem,        \* record_tree.currentItem(), 0 for None
    log_view,           \* plain text of the log panel
    dialog,             \* payload of the open (modal) ReportDialog, or NoDialog
    out,                \* what the most recent handler did: its outcome, the
                        \* message box it raised, the text it wrote to a file
    diagCalls,          \* history: date -> items made by the successive
                        \* create_diagnosis_record calls whose clock showed it
    actCalls,           \* history: diagnosis item -> items made by the
                        \* successive create_action_record calls resolved to it
    firstSeen,          \* history: dates in the order a call first showed them
    createdOn           \* history: per item, the date the clock showed when
                        \* the call that constructed it read it

vars == <<items, topLevel, date_roots, diag_seq_by_date, currentItem, log_view,
          dialog, out, diagCalls, actCalls, firstSeen, createdOn>>

histVars == <<diagCalls, actCalls, firstSeen, createdOn>>

treeVars == <<items, topLevel, date_roots, diag_seq_by_date>>

-----------------------------------------------------------------------------
(* Bounds of the model *)

MaxItems == 6
MaxRows == 2
MaxCols == 4

\* What datetime.now() may show on a call: the clock is free on every call.
Dates == {"2024-01-01", "2024-01-02"}
Times == {"09:00:00"}

-----------------------------------------------------------------------------
(* Python values *)

None == [py_None |-> TRUE]

IsDict(v) == "py_None" \notin DOMAIN v

\* dict.get(key, default)
Get(d, key, default) == IF key \in DOMAIN d THEN d[key] ELSE default

NoItem == 0

NoDialog == [no_dialog |-> TRUE]

EmptyDict == [k \in {} |-> 0]

\* d[key] = value on a dict
DictSet(d, key, value) == [k \in DOMAIN d \cup {key} |-> IF k = key THEN value ELSE d[k]]

\* "sep".join(seq)
RECURSIVE Join(_, _)
Join(seq, sep) ==
    IF Len(seq) = 0 THEN ""
    ELSE IF Len(seq) = 1 THEN seq[1]
    ELSE seq[1] \o sep \o Join(Tail(seq), sep)

Max(a, b) == IF a >= b THEN a ELSE b

-----------------------------------------------------------------------------
(* The tree widget *)

\* QTreeWidgetItem([text]): no data, no parent, no children
NewItem(text) == [text |-> text, data |-> None, parent |-> NoItem, children |-> <<>>]

\* item.data(0, Qt.UserRole)
ItemData(i) == items[i].data

Init ==
    /\ items = <<>>
    /\ topLevel = <<>>
    /\ date_roots = EmptyDict
    /\ diag_seq_by_date = EmptyDict
    /\ currentItem = NoItem
    /\ log_view = ""
    /\ dialog = NoDialog
    /\ out = [op |-> "init", outcome |-> "none"]
    /\ diagCalls = [d \in Dates |-> <<>>]
    /\ actCalls = EmptyDict
    /\ firstSeen = <<>>
    /\ createdOn = <<>>

-----------------------------------------------------------------------------
(* MainWindow *)

\* _now(): (date, time, full) of one reading of the clock
_now(date_str, time_str) ==
    [date_str |-> date_str, time_str |-> time_str,
     full_str |-> date_str \o " " \o time_str]

\* mutant of _ensure_date_root: the membership test is lost and a group is
\* constructed on every call
_ensure_date_root_always(date_str) ==
    LET date_item == Len(items) + 1
    IN [items |-> Append(items, NewItem(date_str)),
        topLevel |-> Append(topLevel, date_item),
        date_roots |-> DictSet(date_roots, date_str, date_item),
        diag_seq_by_date |->
            IF date_str \in DOMAIN diag_seq_by_date THEN diag_seq_by_date
            ELSE DictSet(diag_seq_by_date, date_str, 0),
        ret |-> date_item]

\* _ensure_date_root: the tree and the two dicts after the call, and the
\* item it returns
_ensure_date_root(date_str) ==
    IF date_str \notin DOMAIN date_roots
    THEN LET date_item == Len(items) + 1
         IN [items |-> Append(items, NewItem(date_str)),
             topLevel |-> Append(topLevel, date_item),
             date_roots |-> DictSet(date_roots, date_str, date_item),
             diag_seq_by_date |->
                 IF date_str \in DOMAIN diag_seq_by_date THEN diag_seq_by_date
                 ELSE DictSet(diag_seq_by_date, date_str, 0),
             ret |-> date_item]
    ELSE [items |-> items,
          topLevel |-> topLevel,
          date_roots |-> date_roots,
          diag_seq_by_date |-> diag_seq_by_date,
          ret |-> date_roots[date_str]]

\* mutant of NextDiagSeq: one counter shared by all dates
NextDiagSeq_shared(seqs, date_str) ==
    LET all == {seqs[d] : d \in DOMAIN seqs} \cup {0}
    IN (CHOOSE m \in all : \A v \in all : m >= v) + 1

\* seq = self.diag_seq_by_date.get(date_str, 0) + 1
NextDiagSeq(seqs, date_str) == Get(seqs, date_str, 0) + 1

\* diag_name = f"<jindan>{seq}"
DiagName(seq) == "jindan" \o ToString(seq)

\* the payload dict create_diagnosis_record builds
DiagnosisPayload(now, diag_name) ==
    [kind |-> "diagnosis",
     created_at_full |-> now.full_str,
     created_time |-> now.time_str,
     title |-> now.date_str \o " " \o diag_name \o " ripoteu",
     text |-> diag_name \o " deomi jeomgeom gyeolgwaimnida.\nchuhu silje jeomgeom rogeu/panjeong gyeolgwaga pyosidoemnida.",
     table |-> << <<"daesang", "seobeo-A", "deomi">>,
                  <<"sangtae", "jeomgeomwallyo", "placeholder">>,
                  <<"yoyak", "chwiyakjeom jeomgeom 3geon", "yesi">> >>,
     action_seq |-> 0]

\* the text on_tree_item_clicked puts in the log panel for an item's data
LogText(payload) ==
    IF ~IsDict(payload)
    THEN "naljja nodeuimnida. hawi jindan/jochi hangmogeul seontaekhaseyo."
    ELSE "[" \o Get(payload, "created_time", "") \o "]\n" \o Get(payload, "text", "")

\* parent.addChild(child) for a freshly constructed child
AddChild(its, parent, child) ==
    [i \in DOMAIN its |->
        IF i = parent THEN [its[i] EXCEPT !.children = Append(@, child)]
        ELSE IF i = child THEN [its[i] EXCEPT !.parent = parent]
        ELSE its[i]]

\* mutant of setCurrentItem: the call is left out
setCurrentItem_skipped(item) == UNCHANGED currentItem

\* self.record_tree.setCurrentItem(item)
setCurrentItem(item) == currentItem' = item


create_diagnosis_record(date_str, time_str) ==
    /\ dialog = NoDialog
    /\ LET now == _now(date_str, time_str)
           e == _ensure_date_root(now.date_str)
           date_item == e.ret
           seq == NextDiagSeq(e.diag_seq_by_date, now.date_str)
           diag_name == DiagName(seq)
           payload == DiagnosisPayload(now, diag_name)
           diag_item == Len(e.items) + 1
           created == Append(e.items, [NewItem(diag_name) EXCEPT !.data = payload])
       IN /\ diag_item <= MaxItems
          /\ items' = AddChild(created, date_item, diag_item)
          /\ topLevel' = e.topLevel
          /\ date_roots' = e.date_roots
          /\ diag_seq_by_date' = DictSet(e.diag_seq_by_date, now.date_str, seq)
          /\ setCurrentItem(diag_item)
          /\ log_view' = LogText(payload)
          /\ out' = [op |-> "create_diagnosis_record", outcome |-> "created",
                     item |-> diag_item]
          /\ createdOn' = createdOn \o [i \in 1..(diag_item - Len(items)) |-> date_str]
          /\ diagCalls' = [diagCalls EXCEPT ![now.date_str] = Append(@, diag_item)]
          /\ actCalls' = DictSet(actCalls, diag_item, <<>>)
          /\ firstSeen' = IF \E k \in DOMAIN firstSeen : firstSeen[k] = now.date_str
                          THEN firstSeen ELSE Append(firstSeen, now.date_str)
    /\ UNCHANGED dialog

\* mutant of ResolveDiagnosisScope: an action resolves to itself, not to its
\* parent
ResolveDiagnosisScope_noParent(selected) ==
    IF selected = NoItem THEN NoItem
    ELSE IF IsDict(ItemData(selected)) THEN selected
    ELSE NoItem

\* mutant of ResolveDiagnosisScope: whatever is selected is returned
ResolveDiagnosisScope_anySelected(selected) == selected

\* the body of _resolve_selected_diagnosis after `selected` is read: the
\* item it returns, NoItem for None
ResolveDiagnosisScope(selected) ==
    IF selected = NoItem THEN NoItem
    ELSE LET payload == ItemData(selected)
         IN IF IsDict(payload) /\ Get(payload, "kind", None) = "diagnosis"
            THEN selected
            ELSE IF IsDict(payload) /\ Get(payload, "kind", None) = "action"
                                    /\ items[selected].parent # NoItem
            THEN items[selected].parent
            ELSE NoItem

\* selected = self.record_tree.currentItem()
_resolve_selected_diagnosis == ResolveDiagnosisScope(currentItem)

\* mutant of NextActionSeq: the counter is read under a misspelt key
NextActionSeq_wrongKey(diag_payload) == Get(diag_payload, "actionseq", 0) + 1

\* next_seq = int(diag_payload.get("action_seq", 0)) + 1
NextActionSeq(diag_payload) == Get(diag_payload, "action_seq", 0) + 1

\* action_name = f"<jochi>{next_seq}"
ActionName(next_seq) == "jochi" \o ToString(next_seq)

\* mutant of ActionPayload: the title is built on the diagnosis's report
\* title, not on its display name
ActionPayload_reportTitle(now, diag_text, action_name) ==
    [kind |-> "action",
     created_at_full |-> now.full_str,
     created_time |-> now.time_str,
     title |-> now.date_str \o " " \o diag_text \o " ripoteu - " \o action_name \o " ripoteu",
     text |-> diag_text \o "e daehan " \o action_name \o " deomi silhaeng gyeolgwaimnida.",
     table |-> << <<"jochidaesang", diag_text, "deomi">>,
                  <<"jochigyeolgwa", "seonggong", "placeholder">>,
                  <<"bigo", action_name, "yesi">> >>]

\* the payload dict create_action_record builds; diag_text is diag_item.text(0)
ActionPayload(now, diag_text, action_name) ==
    [kind |-> "action",
     created_at_full |-> now.full_str,
     created_time |-> now.time_str,
     title |-> now.date_str \o " " \o diag_text \o " - " \o action_name \o " ripoteu",
     text |-> diag_text \o "e daehan " \o action_name \o " deomi silhaeng gyeolgwaimnida.",
     table |-> << <<"jochidaesang", diag_text, "deomi">>,
                  <<"jochigyeolgwa", "seonggong", "placeholder">>,
                  <<"bigo", action_name, "yesi">> >>]

\* QMessageBox.warning / information / critical: icon and window title
MessageBox(icon, title) == [icon |-> icon, title |-> title]

\* mutant of NoSelectionWarning: the failing call also clears the selection
NoSelectionWarning_clearsSelection ==
    /\ out' = [op |-> "create_action_record", outcome |-> "no_selection",
               box |-> [icon |-> "warning", title |-> "seontaek piryo"]]
    /\ currentItem' = NoItem
    /\ UNCHANGED <<treeVars, log_view, histVars>>

\* the branch of create_action_record taken when no diagnosis is resolved:
\* the warning box, then return
NoSelectionWarning ==
    /\ out' = [op |-> "create_action_record", outcome |-> "no_selection",
               box |-> MessageBox("warning", "seontaek piryo")]
    /\ UNCHANGED <<treeVars, currentItem, log_view, histVars>>

\* mutant of StoreActionSeq: a dict holding only the counter is stored on the
\* diagnosis
StoreActionSeq_counterOnly(its, diag_item, diag_payload, next_seq) ==
    [its EXCEPT ![diag_item].data = [action_seq |-> next_seq]]

\* diag_payload["action_seq"] = next_seq; diag_item.setData(0, Qt.UserRole, diag_payload)
StoreActionSeq(its, diag_item, diag_payload, next_seq) ==
    [its EXCEPT ![diag_item].data = DictSet(diag_payload, "action_seq", next_seq)]

create_action_record(date_str, time_str) ==
    /\ dialog = NoDialog
    /\ LET diag_item == _resolve_selected_diagnosis
       IN IF diag_item = NoItem
          THEN NoSelectionWarning
          ELSE IF ~IsDict(ItemData(diag_item))
          THEN /\ out' = [op |-> "create_action_record", outcome |-> "payload_missing",
                          box |-> MessageBox("warning", "oryu")]
               /\ UNCHANGED <<treeVars, currentItem, log_view, histVars>>
          ELSE /\ Len(items) < MaxItems
               /\ LET diag_payload == ItemData(diag_item)
                      next_seq == NextActionSeq(diag_payload)
                      stored == StoreActionSeq(items, diag_item, diag_payload, next_seq)
                      now == _now(date_str, time_str)
                      action_name == ActionName(next_seq)
                      action_payload == ActionPayload(now, items[diag_item].text, action_name)
                      action_item == Len(items) + 1
                      created == Append(stored,
                                     [NewItem(action_name) EXCEPT !.data = action_payload])
                  IN /\ items' = AddChild(created, diag_item, action_item)
                     /\ setCurrentItem(action_item)
                     /\ log_view' = LogText(action_payload)
                     /\ out' = [op |-> "create_action_record", outcome |-> "created",
                                item |-> action_item]
                     /\ createdOn' = Append(createdOn, date_str)
                     /\ actCalls' = [actCalls EXCEPT ![diag_item] = Append(@, action_item)]
                     /\ UNCHANGED <<topLevel, date_roots, diag_seq_by_date,
                                    diagCalls, firstSeen>>
    /\ UNCHANGED dialog

\* the user clicks an item: the tree widget makes it current and emits
\* itemClicked, which runs on_tree_item_clicked
on_tree_item_clicked(item) ==
    /\ dialog = NoDialog
    /\ currentItem' = item
    /\ log_view' = LogText(ItemData(item))
    /\ out' = [op |-> "on_tree_item_clicked", outcome |-> "shown"]
    /\ UNCHANGED <<treeVars, dialog, histVars>>

\* open_report_dialog up to dialog.exec_(): the dialog is modal, so no
\* handler of the main window runs until it is closed
open_report_dialog ==
    /\ dialog = NoDialog
    /\ LET selected == currentItem
       IN IF selected = NoItem
          THEN /\ out' = [op |-> "open_report_dialog", outcome |-> "no_selection",
                          box |-> MessageBox("information", "seontaek piryo")]
               /\ UNCHANGED dialog
          ELSE IF ~IsDict(ItemData(selected))
          THEN /\ out' = [op |-> "open_report_dialog", outcome |-> "date_node",
                          box |-> MessageBox("information", "annae")]
               /\ UNCHANGED dialog
          ELSE /\ dialog' = ItemData(selected)
               /\ out' = [op |-> "open_report_dialog", outcome |-> "opened"]
    /\ UNCHANGED <<treeVars, currentItem, log_view, histVars>>

-----------------------------------------------------------------------------
(* ReportDialog *)

\* program constant: the table has 3 columns
Columns == 3

\* mutant of Padded: the empty strings are put in front of the row
Padded_left(row) == [i \in 1..Max(0, Columns - Len(row)) |-> ""] \o row

\* padded = list(row) + [""] * max(0, 3 - len(row))
Padded(row) == row \o [i \in 1..Max(0, Columns - Len(row)) |-> ""]

\* f"- {padded[0]} | {padded[1]} | {padded[2]}"
TableLine(row) ==
    LET padded == Padded(row)
    IN "- " \o padded[1] \o " | " \o padded[2] \o " | " \o padded[3]

\* the list `body` of _save_as_txt
Body(payload) ==
    LET table == Get(payload, "table", <<>>)
        table_lines == [r \in 1..Len(table) |-> TableLine(table[r])]
    IN << "jemok: " \o Get(payload, "title", ""),
          "jongnyu: " \o Get(payload, "kind", ""),
          "saengseongsigak: " \o Get(payload, "created_at_full", ""),
          "",
          "[yoyak]",
          Get(payload, "text", ""),
          "",
          "[pyo deiteo]" >> \o table_lines

\* "\n".join(body)
RenderAsText(payload) == Join(Body(payload), "\n")

\* the file dialog returns `path` ("" when the user cancels); `ok` is whether
\* open/write succeed (FALSE: OSError).  default_name only seeds the file
\* dialog, whose answer is the input `path`.
_save_as_txt(path, ok) ==
    /\ dialog # NoDialog
    /\ IF path = ""
       THEN out' = [op |-> "_save_as_txt", outcome |-> "cancelled"]
       ELSE IF ok
       THEN out' = [op |-> "_save_as_txt", outcome |-> "written", path |-> path,
                    content |-> RenderAsText(dialog),
                    box |-> MessageBox("information", "jeojang wallyo")]
       ELSE out' = [op |-> "_save_as_txt", outcome |-> "failed", path |-> path,
                    box |-> MessageBox("critical", "jeojang silpae")]
    /\ UNCHANGED <<treeVars, currentItem, log_view, dialog, histVars>>

\* the close button: dialog.exec_() returns
close ==
    /\ dialog # NoDialog
    /\ dialog' = NoDialog
    /\ out' = [op |-> "close", outcome |-> "closed"]
    /\ UNCHANGED <<treeVars, currentItem, log_view, histVars>>

Paths == {"", "/tmp/report.txt"}

-----------------------------------------------------------------------------

Next ==
    \/ \E d \in Dates, t \in Times : create_diagnosis_record(d, t)
    \/ \E d \in Dates, t \in Times : create_action_record(d, t)
    \/ \E item \in DOMAIN items : on_tree_item_clicked(item)
    \/ open_report_dialog
    \/ \E path \in Paths, ok \in BOOLEAN : _save_as_txt(path, ok)
    \/ close

Spec == Init /\ [][Next]_vars

-----------------------------------------------------------------------------
(* ReportDialog on its own: ReportDialog(payload) accepts any dict, so the  *)
(* export is also checked from a dialog constructed on each payload of a    *)
(* bounded set, with rows of 0..MaxCols columns and keys possibly missing.  *)

\* the value of column c of sample row r: distinct in every position
Cell(r, c) == "v" \o ToString(r) \o "." \o ToString(c)

ExportRows == {[c \in 1..n |-> Cell(r, c)] : n \in 0..MaxCols, r \in {1, 2}}

ExportTables == UNION {[1..n -> ExportRows] : n \in 0..MaxRows}

PayloadKeys == {"title", "kind", "created_at_full", "text", "table"}

FullPayloads ==
    [title : {"2024-01-01 jindan1 ripoteu"},
     kind : {"diagnosis", "action"},
     created_at_full : {"2024-01-01 09:00:00"},
     text : {"line one\nline two"},
     table : ExportTables]

\* d without key k
Without(d, k) == [x \in DOMAIN d \ {k} |-> d[x]]

ExportPayloads ==
    FullPayloads
    \cup {Without(p, k) : p \in FullPayloads, k \in PayloadKeys}
    \cup {DiagnosisPayload(_now(d, t), DiagName(1)) : d \in Dates, t \in Times}
    \cup {ActionPayload(_now(d, t), DiagName(1), ActionName(1)) : d \in Dates, t \in Times}

InitExport ==
    /\ items = <<>>
    /\ topLevel = <<>>
    /\ date_roots = EmptyDict
    /\ diag_seq_by_date = EmptyDict
    /\ currentItem = NoItem
    /\ log_view = ""
    /\ dialog \in ExportPayloads
    /\ out = [op |-> "init", outcome |-> "none"]
    /\ diagCalls = [d \in Dates |-> <<>>]
    /\ actCalls = EmptyDict
    /\ firstSeen = <<>>
    /\ createdOn = <<>>

NextExport ==
    \/ \E path \in Paths, ok \in BOOLEAN : _save_as_txt(path, ok)
    \/ close

ExportSpec == InitExport /\ [][NextExport]_vars

-----------------------------------------------------------------------------
(* Properties *)

Range(seq) == {seq[k] : k \in DOMAIN seq}

\* the records of the histories: which items are date groups, diagnosis
\* records and action records, by the call that constructed them
DateGroups == {date_roots[d] : d \in DOMAIN date_roots}
DiagnosisRecords == UNION {Range(diagCalls[d]) : d \in Dates}
ActionRecords == UNION {Range(actCalls[D]) : D \in DOMAIN actCalls}

\* C1: for every date d, the diagnoses made by the N create_diagnosis_record
\* calls whose clock showed d are named jindan1 .. jindanN in call order, they
\* are exactly the children of d's group in that order, and d's counter is N
\* whatever was created on other dates.
C1_DiagnosisSeqPerDate ==
    \A d \in Dates :
        LET calls == diagCalls[d]
            N == Len(calls)
        IN /\ Get(diag_seq_by_date, d, 0) = N
           /\ \A k \in 1..N :
                /\ items[calls[k]].text = "jindan" \o ToString(k)
                /\ items[calls[k]].data.kind = "diagnosis"
           /\ N > 0 => /\ d \in DOMAIN date_roots
                       /\ items[date_roots[d]].children = calls

\* two diagnoses of one date with a diagnosis of another date created between
C1_Witness ==
    \E d \in Dates, e \in Dates :
        /\ d # e
        /\ Len(diagCalls[d]) >= 2
        /\ Len(diagCalls[e]) >= 1
        /\ diagCalls[d][1] < diagCalls[e][1]
        /\ diagCalls[e][1] < diagCalls[d][2]
        /\ items[diagCalls[d][2]].text = "jindan2"
        /\ items[diagCalls[e][1]].text = "jindan1"

\* a step in which create_action_record constructed an action item
ActionCreated == Len(items') = Len(items) + 1 /\ out'.op = "create_action_record"

\* C2: for every diagnosis D, the actions made by the M create_action_record
\* calls resolved to D are named jochi1 .. jochiM in call order, they are
\* exactly D's children in that order and D's action_seq is M; a call resolved
\* to another diagnosis leaves D's item (payload and children) as it was.
C2_ActionSeqState ==
    \A D \in DOMAIN actCalls :
        LET calls == actCalls[D]
            M == Len(calls)
        IN /\ items[D].data.action_seq = M
           /\ items[D].children = calls
           /\ \A j \in 1..M :
                /\ items[calls[j]].text = "jochi" \o ToString(j)
                /\ items[calls[j]].data.kind = "action"
                /\ items[calls[j]].parent = D

C2_ActionSeqStep ==
    ActionCreated =>
        LET R == _resolve_selected_diagnosis
        IN /\ R \in DOMAIN actCalls
           /\ actCalls' = [actCalls EXCEPT ![R] = Append(@, Len(items'))]
           /\ \A D \in DOMAIN actCalls : D # R => items'[D] = items[D]

\* C2 as one formula: the actions under each diagnosis are numbered 1..M in
\* call order in every state, and every action-creating step touches only
\* the diagnosis it resolved to
C2_ActionSeqPerDiagnosis == [](C2_ActionSeqState) /\ [][C2_ActionSeqStep]_vars

\* actions of two diagnoses interleaved: D gets one, E gets one, D gets its second
C2_Witness ==
    \E D \in DOMAIN actCalls, E \in DOMAIN actCalls :
        /\ D # E
        /\ Len(actCalls[D]) >= 2
        /\ Len(actCalls[E]) >= 1
        /\ actCalls[D][1] < actCalls[E][1]
        /\ actCalls[E][1] < actCalls[D][2]
        /\ items[actCalls[D][2]].text = "jochi2"
        /\ items[actCalls[E][1]].text = "jochi1"

\* C3: for every selection the tree allows (none or any item), the resolved
\* diagnosis is the item itself for a diagnosis record, the diagnosis whose
\* call constructed it (its parent) for an action record, and none for no
\* selection or a date group; what is returned is never a date group or an
\* action record.
C3_ResolveDiagnosisScope ==
    /\ DOMAIN items = DateGroups \cup DiagnosisRecords \cup ActionRecords
    /\ ResolveDiagnosisScope(NoItem) = NoItem
    /\ \A i \in DateGroups : ResolveDiagnosisScope(i) = NoItem
    /\ \A i \in DiagnosisRecords : ResolveDiagnosisScope(i) = i
    /\ \A D \in DOMAIN actCalls : \A i \in Range(actCalls[D]) :
            /\ ResolveDiagnosisScope(i) = D
            /\ items[i].parent = D
    /\ \A i \in DOMAIN items \cup {NoItem} :
            ResolveDiagnosisScope(i) \in DiagnosisRecords \cup {NoItem}

\* an action record is selected and resolves to its parent, with a date group
\* and another diagnosis in the tree
C3_Witness ==
    /\ currentItem \in ActionRecords
    /\ _resolve_selected_diagnosis = items[currentItem].parent
    /\ _resolve_selected_diagnosis \in DiagnosisRecords
    /\ Cardinality(DiagnosisRecords) >= 2
    /\ out.op = "on_tree_item_clicked"

\* nothing is selected, or a date group is
NoDiagnosisScope == currentItem = NoItem \/ currentItem \in DateGroups

\* a step of create_action_record (a repeated failing call changes nothing
\* at all and is a stuttering step)
CreateActionStep == out'.op = "create_action_record" /\ out' # out

\* C4: create_action_record with nothing or a date group selected raises the
\* select-first warning, creates no record and leaves tree, counters,
\* payloads, selection and log as they were; after it a diagnosis can still
\* be created.
C4_NoSelectionStep ==
    /\ (CreateActionStep /\ NoDiagnosisScope) =>
            /\ out'.outcome = "no_selection"
            /\ out'.box = [icon |-> "warning", title |-> "seontaek piryo"]
            /\ UNCHANGED <<treeVars, currentItem, log_view, dialog, histVars>>
    /\ (CreateActionStep /\ out'.outcome = "no_selection") => NoDiagnosisScope

C4_UsableAfter ==
    (out.outcome = "no_selection" /\ Len(items) + 2 <= MaxItems) =>
        ENABLED (\E d \in Dates, t \in Times : create_diagnosis_record(d, t))

\* C4 as one formula: the failing call only raises the warning, and the
\* window stays usable after it
C4_NoSelectionError == [][C4_NoSelectionStep]_vars /\ [](C4_UsableAfter)

\* the warning was raised with a date group selected and records in the tree
C4_Witness ==
    /\ out.op = "create_action_record"
    /\ out.outcome = "no_selection"
    /\ currentItem \in DateGroups
    /\ DiagnosisRecords # {}
    /\ ActionRecords # {}

\* C5: a creation makes the record it constructed the current item; and a
\* create_action_record call that directly follows a successful creation
\* succeeds and puts its action under the diagnosis just created, or under
\* the parent of the action just created.
C5_CreationSelects ==
    Len(items') > Len(items) =>
        /\ currentItem' = Len(items')
        /\ out'.outcome = "created"
        /\ out'.item = Len(items')
        /\ (out'.op = "create_diagnosis_record") = (Len(items') \in DiagnosisRecords')
        /\ (out'.op = "create_action_record") = (Len(items') \in ActionRecords')

C5_ActionAfterCreation ==
    (out.outcome = "created" /\ CreateActionStep) =>
        /\ out'.outcome = "created"
        /\ items'[out'.item].parent =
              IF out.op = "create_diagnosis_record" THEN out.item
              ELSE items[out.item].parent

\* C5 as one formula: every creation selects what it created, and a
\* create_action_record call right after a creation succeeds under the same
\* diagnosis
C5_ResultBecomesSelection ==
    [][C5_CreationSelects]_vars /\ [][C5_ActionAfterCreation]_vars

\* a diagnosis, then two actions under it, each call following a creation
C5_Witness ==
    /\ Len(items) >= 3
    /\ out.op = "create_action_record"
    /\ out.outcome = "created"
    /\ out.item = Len(items)
    /\ currentItem = Len(items)
    /\ Len(items) - 1 \in ActionRecords
    /\ Len(items) - 2 \in DiagnosisRecords
    /\ items[Len(items)].parent = Len(items) - 2
    /\ items[Len(items) - 1].parent = Len(items) - 2

\* payload p' is payload p in every field but action_seq
SameButActionSeq(p, q) ==
    /\ IsDict(p) = IsDict(q)
    /\ DOMAIN p = DOMAIN q
    /\ \A k \in DOMAIN p \ {"action_seq"} : q[k] = p[k]

\* C6: no step changes the text, the parent or any payload field other than
\* action_seq of an existing item; create_action_record adds one action item,
\* raises the action_seq of the diagnosis it resolved to by one, appends the
\* new item to that diagnosis's children and leaves every other item as it
\* was; every other step (create diagnosis, click, open report, save, close)
\* leaves every existing payload as it was.
C6_PayloadFrame ==
    /\ \A i \in DOMAIN items :
          /\ i \in DOMAIN items'
          /\ items'[i].text = items[i].text
          /\ items'[i].parent = items[i].parent
          /\ SameButActionSeq(items[i].data, items'[i].data)
    /\ ActionCreated =>
          LET R == _resolve_selected_diagnosis
              new == Len(items')
          IN /\ R \in DiagnosisRecords
             /\ items'[R].data.action_seq = items[R].data.action_seq + 1
             /\ items'[R].children = Append(items[R].children, new)
             /\ items'[new].data.kind = "action"
             /\ \A i \in DOMAIN items \ {R} : items'[i] = items[i]
    /\ ~ActionCreated =>
          \A i \in DOMAIN items : items'[i].data = items[i].data

\* C6 as one formula: every step keeps the payloads as the frame above says
C6_PayloadImmutable == [][C6_PayloadFrame]_vars

\* a second action was just created under a diagnosis while another
\* diagnosis holds an action of its own
C6_Witness ==
    /\ out.op = "create_action_record"
    /\ out.outcome = "created"
    /\ items[items[out.item].parent].data.action_seq = 2
    /\ \E D \in DiagnosisRecords :
          D # items[out.item].parent /\ items[D].data.action_seq = 1

\* C7: the top-level items are the date groups, one per date for which a
\* diagnosis was created and none for any other date, in the order the dates
\* were first seen; _ensure_date_root on a date that has a group returns that
\* group and changes neither the tree nor the counters; a top-level item
\* keeps its place for good.
C7_DateGroupState ==
    /\ \A d \in Dates :
          Cardinality({k \in DOMAIN topLevel : items[topLevel[k]].text = d})
              = IF diagCalls[d] # <<>> THEN 1 ELSE 0
    /\ [k \in DOMAIN topLevel |-> items[topLevel[k]].text] = firstSeen
    /\ Range(topLevel) = {i \in DOMAIN items : items[i].parent = NoItem}
    /\ DOMAIN date_roots = {d \in Dates : diagCalls[d] # <<>>}
    /\ \A d \in DOMAIN date_roots :
          /\ date_roots[d] \in Range(topLevel)
          /\ items[date_roots[d]].text = d
          /\ _ensure_date_root(d) =
                [items |-> items, topLevel |-> topLevel, date_roots |-> date_roots,
                 diag_seq_by_date |-> diag_seq_by_date, ret |-> date_roots[d]]

C7_DateGroupStep ==
    /\ Len(topLevel') >= Len(topLevel)
    /\ \A k \in DOMAIN topLevel : topLevel'[k] = topLevel[k]
    /\ \A d \in DOMAIN date_roots :
          d \in DOMAIN date_roots' /\ date_roots'[d] = date_roots[d]

\* C7 as one formula: one group per date seen, in first-seen order, in every
\* state, and no step moves or drops a group
C7_DateGroups == [](C7_DateGroupState) /\ [][C7_DateGroupStep]_vars

\* the later date was seen first, then the earlier one, then the later again
C7_Witness ==
    /\ firstSeen = <<"2024-01-02", "2024-01-01">>
    /\ Len(diagCalls["2024-01-02"]) >= 2
    /\ diagCalls["2024-01-01"][1] < diagCalls["2024-01-02"][2]
    /\ Len(topLevel) = 2

\* C8: the k-th diagnosis of date d is titled "d jindank ripoteu"; the j-th
\* action under it is titled "<date> jindank - jochij ripoteu", <date> being
\* the date the clock showed at the action's creation; the scenario's three
\* titles are as the scenario gives them.
C8_Titles ==
    /\ \A d \in Dates : \A k \in 1..Len(diagCalls[d]) :
          LET D == diagCalls[d][k]
          IN /\ items[D].data.title = d \o " jindan" \o ToString(k) \o " ripoteu"
             /\ \A j \in 1..Len(actCalls[D]) :
                   items[actCalls[D][j]].data.title =
                       createdOn[actCalls[D][j]] \o " jindan" \o ToString(k)
                           \o " - jochi" \o ToString(j) \o " ripoteu"
    /\ LET calls == diagCalls["2024-01-01"]
       IN (/\ Len(calls) >= 2
           /\ Len(actCalls[calls[1]]) >= 1
           /\ createdOn[actCalls[calls[1]][1]] = "2024-01-01") =>
              /\ items[calls[1]].data.title = "2024-01-01 jindan1 ripoteu"
              /\ items[calls[2]].data.title = "2024-01-01 jindan2 ripoteu"
              /\ items[actCalls[calls[1]][1]].data.title
                    = "2024-01-01 jindan1 - jochi1 ripoteu"

\* an action created on the day after its diagnosis, under the second
\* diagnosis of that date
C8_Witness ==
    LET calls == diagCalls["2024-01-01"]
    IN /\ Len(calls) >= 2
       /\ Len(actCalls[calls[2]]) >= 1
       /\ createdOn[actCalls[calls[2]][1]] = "2024-01-02"
       /\ items[actCalls[calls[2]][1]].data.title = "2024-01-02 jindan2 - jochi1 ripoteu"
       /\ "2024-01-02" \notin DOMAIN date_roots

\* number of items on the path from an item up to its top-level ancestor
RECURSIVE Level(_)
Level(i) == IF items[i].parent = NoItem THEN 1 ELSE 1 + Level(items[i].parent)

\* C10: create_action_record never takes its payload-missing branch: whatever
\* is selected, a resolved item is a level-2 item whose payload is a dict of
\* kind diagnosis with an integer action_seq equal to the number of its
\* (action) children; every date's counter is the number of (diagnosis)
\* children of its group; every action's parent is a diagnosis; no item lies
\* deeper than level 3.
C10_PayloadMissingUnreachable ==
    /\ out.outcome # "payload_missing"
    /\ \A s \in DOMAIN items \cup {NoItem} :
          LET r == ResolveDiagnosisScope(s)
          IN r # NoItem =>
                /\ Level(r) = 2
                /\ IsDict(items[r].data)
                /\ items[r].data.kind = "diagnosis"
                /\ items[r].data.action_seq \in Nat
                /\ items[r].data.action_seq = Len(items[r].children)
                /\ \A c \in Range(items[r].children) : items[c].data.kind = "action"
    /\ \A d \in DOMAIN date_roots :
          /\ diag_seq_by_date[d] = Len(items[date_roots[d]].children)
          /\ \A c \in Range(items[date_roots[d]].children) :
                items[c].data.kind = "diagnosis"
    /\ \A i \in DOMAIN items :
          /\ Level(i) <= 3
          /\ (IsDict(items[i].data) /\ items[i].data.kind = "action") =>
                /\ items[i].parent # NoItem
                /\ IsDict(items[items[i].parent].data)
                /\ items[items[i].parent].data.kind = "diagnosis"
                /\ items[i].children = <<>>

\* create_action_record has just gone past both checks from a selected action
C10_Witness ==
    /\ out.op = "create_action_record"
    /\ out.outcome = "created"
    /\ items[out.item].text = "jochi3"
    /\ Level(out.item) = 3

\* the line the layout prescribes for one table row
ExpectedRowLine(row) ==
    IF Len(row) >= 3 THEN "- " \o row[1] \o " | " \o row[2] \o " | " \o row[3]
    ELSE IF Len(row) = 2 THEN "- " \o row[1] \o " | " \o row[2] \o " | "
    ELSE IF Len(row) = 1 THEN "- " \o row[1] \o " |  | "
    ELSE "-  |  | "

\* lines[1], ..., lines[n] with one newline between neighbours
RECURSIVE LinesUpTo(_, _)
LinesUpTo(lines, n) ==
    IF n = 0 THEN ""
    ELSE IF n = 1 THEN lines[1]
    ELSE LinesUpTo(lines, n - 1) \o "\n" \o lines[n]

Field(p, k) == IF k \in DOMAIN p THEN p[k] ELSE ""

ExpectedText(p) ==
    LET table == IF "table" \in DOMAIN p THEN p.table ELSE <<>>
        head == <<"jemok: " \o Field(p, "title"),
                  "jongnyu: " \o Field(p, "kind"),
                  "saengseongsigak: " \o Field(p, "created_at_full"),
                  "",
                  "[yoyak]",
                  Field(p, "text"),
                  "",
                  "[pyo deiteo]">>
        lines == [n \in 1..(8 + Len(table)) |->
                     IF n <= 8 THEN head[n] ELSE ExpectedRowLine(table[n - 8])]
    IN LinesUpTo(lines, 8 + Len(table))

\* C9: the text written for a payload is the title, kind and timestamp lines,
\* an empty line, the summary header, the summary, an empty line, the table
\* header and one "- c1 | c2 | c3" line per row in order, joined by single
\* newlines; a 3-column row appears as it is, a shorter row is padded on the
\* right with empty strings, a longer row gives its first 3 values; the text
\* is a function of the payload alone, and saving changes neither the
\* payload nor the tree.
C9_ExportState ==
    out.outcome = "written" => out.content = ExpectedText(dialog)

C9_ExportStep ==
    out'.op = "_save_as_txt" => UNCHANGED <<treeVars, dialog, currentItem, log_view>>

\* C9 as one formula: what is written has the prescribed layout, and saving
\* changes neither payload nor tree
C9_ExportLayout == [](C9_ExportState) /\ [][C9_ExportStep]_vars

\* a payload with one row of more than 3 columns and one of fewer was written
C9_Witness ==
    /\ out.op = "_save_as_txt"
    /\ out.outcome = "written"
    /\ DOMAIN dialog = PayloadKeys
    /\ Len(dialog.table) = 2
    /\ Len(dialog.table[1]) = 4
    /\ Len(dialog.table[2]) = 1
    /\ dialog.kind = "diagnosis"
    /\ out.content = "jemok: 2024-01-01 jindan1 ripoteu\njongnyu: diagnosis\n"
                     \o "saengseongsigak: 2024-01-01 09:00:00\n\n[yoyak]\n"
                     \o "line one\nline two\n\n[pyo deiteo]\n"
                     \o "- v1.1 | v1.2 | v1.3\n- v2.1 |  | "

====
